---- MODULE Spec2Model ----
(***************************************************************************)
(* Lost & Found device registry (Flask + SQLAlchemy + SQLite backend).     *)
(* The model follows src/backend/app.py (register, login),                 *)
(* src/backend/routes.py (the live blueprint, lines 261-444) and           *)
(* src/backend/models.py (User, Device), starting from the database that   *)
(* src/backend/init_db.py builds.                                          *)
(*                                                                         *)
(* Python strings are sequences of one-character strings, so that          *)
(* str.strip() and float() are computed and not assumed.  A JSON value of  *)
(* a request body is a tagged record; a key that is missing from the body  *)
(* is the value Absent.                                                    *)
(***************************************************************************)
EXTENDS Integers, Sequences, FiniteSets, TLC

(***************************************************************************)
(* Bounds of the model.                                                    *)
(***************************************************************************)
\* number of device rows written (inserted or updated) in one run; each write
\* reads datetime.utcnow, which is later than every timestamp stored before
MaxClock == 2
\* device ids 1..MaxDevices can be named by the PUT and DELETE routes
MaxDevices == 2

(***************************************************************************)
(* JSON values and the Python primitives the handlers apply to them.       *)
(***************************************************************************)
Absent == [t |-> "absent", s |-> <<>>, n |-> 0]
JNull == [t |-> "null", s |-> <<>>, n |-> 0]
Str(chars) == [t |-> "str", s |-> chars, n |-> 0]
Num(k) == [t |-> "num", s |-> <<>>, n |-> k]

\* dict.get(key): None when the key is missing
Get(v) == IF v.t = "absent" THEN JNull ELSE v

\* dict.get(key, default)
GetDefault(v, default) == IF v.t = "absent" THEN default ELSE v

\* key in dict
HasKey(v) == v.t # "absent"

\* Python truth value of a JSON value
Truthy(v) ==
    \/ v.t = "str" /\ v.s # <<>>
    \/ v.t = "num" /\ v.n # 0

IsSpace(c) == c = " "

RECURSIVE LStrip(_)
LStrip(chars) ==
    IF chars # <<>> /\ IsSpace(Head(chars)) THEN LStrip(Tail(chars)) ELSE chars

RECURSIVE RStrip(_)
RStrip(chars) ==
    IF chars # <<>> /\ IsSpace(chars[Len(chars)])
    THEN RStrip(SubSeq(chars, 1, Len(chars) - 1))
    ELSE chars

\* str.strip() on a sequence of characters
StripChars(chars) == RStrip(LStrip(chars))

\* value.strip(): AttributeError on anything but a string
PyStrip(v) ==
    IF v.t = "str"
    THEN [raised |-> FALSE, val |-> StripChars(v.s)]
    ELSE [raised |-> TRUE, val |-> <<>>]

Digits == <<"0", "1", "2", "3", "4", "5", "6", "7", "8", "9">>

IsDigit(c) == \E i \in 1..10 : Digits[i] = c

DigitValue(c) == (CHOOSE i \in 1..10 : Digits[i] = c) - 1

RECURSIVE DecimalValue(_)
DecimalValue(chars) ==
    IF chars = <<>> THEN 0
    ELSE 10 * DecimalValue(SubSeq(chars, 1, Len(chars) - 1))
         + DigitValue(chars[Len(chars)])

\* float(value): a number is itself, a string is stripped and read as a
\* decimal numeral (ValueError otherwise), None is a TypeError
PyFloat(v) ==
    IF v.t = "num" THEN [raised |-> FALSE, val |-> v.n]
    ELSE IF v.t = "str"
              /\ StripChars(v.s) # <<>>
              /\ \A i \in 1..Len(StripChars(v.s)) : IsDigit(StripChars(v.s)[i])
         THEN [raised |-> FALSE, val |-> DecimalValue(StripChars(v.s))]
         ELSE [raised |-> TRUE, val |-> 0]

\* a nullable Float column
SqlNull == [null |-> TRUE, val |-> 0]
SqlFloat(k) == [null |-> FALSE, val |-> k]

\* werkzeug generate_password_hash / check_password_hash: the stored value
\* is a digest from which only equality with a candidate can be decided
generate_password_hash(password) == <<"pbkdf2">> \o password

check_password_hash(pwhash, password) == pwhash = generate_password_hash(password)

(***************************************************************************)
(* Literals of the source and of the requests.                             *)
(***************************************************************************)
LOST == <<"l", "o", "s", "t">>
FOUND == <<"f", "o", "u", "n", "d">>
STOLEN == <<"s", "t", "o", "l", "e", "n">>
ADMIN == <<"a", "d", "m", "i", "n">>
ADMIN_PW == <<"a", "d", "m", "i", "n", "1", "2", "3">>
ADMIN_EMAIL ==
    <<"a", "d", "m", "i", "n", "@", "e", "x", "a", "m", "p", "l", "e", ".", "c", "o", "m">>
BO == <<"b", "o">>

VARIABLES
    users,      \* table users: id -> row
    devices,    \* table devices: id -> row
    now,        \* the clock read by datetime.utcnow
    deleted,    \* ids whose DELETE was answered "Device deleted successfully"
    last,       \* the request being answered and its response ("none": idle)
    inflight    \* the requests inside a handler on the threaded server

vars == <<users, devices, now, deleted, last, inflight>>

(***************************************************************************)
(* models.py: User                                                         *)
(***************************************************************************)
NoEmail == [null |-> TRUE, val |-> <<>>]
Email(chars) == [null |-> FALSE, val |-> chars]

\* User.__init__ (the timestamps of a user row are read by no handler of the
\* model and are left out)
User(username, email, password, is_admin) ==
    [username |-> username,
     email |-> email,
     password_hash |-> generate_password_hash(password),
     is_admin |-> is_admin]

\* User.find_by_username: the id of the row, 0 for None
find_by_username(table, username) ==
    IF \E u \in DOMAIN table : table[u].username = username
    THEN CHOOSE u \in DOMAIN table : table[u].username = username
    ELSE 0

\* User.find_by_email: the id of the row, 0 for None
find_by_email(table, email) ==
    IF email = <<>> THEN 0
    ELSE IF \E u \in DOMAIN table : table[u].email = Email(email)
         THEN CHOOSE u \in DOMAIN table : table[u].email = Email(email)
         ELSE 0

\* User.check_password
check_password(row, password) == check_password_hash(row.password_hash, password)

\* a users table without UNIQUE constraints
NoUniqueViolation(table, row) == FALSE

\* the UNIQUE constraints of users.username and users.email (NULLs never clash)
UniqueViolation(table, row) ==
    \E u \in DOMAIN table :
        \/ table[u].username = row.username
        \/ ~row.email.null /\ table[u].email = row.email

\* INTEGER PRIMARY KEY of SQLite: one more than the largest id in the table
NextId(table) ==
    IF DOMAIN table = {} THEN 1
    ELSE (CHOOSE m \in DOMAIN table : \A k \in DOMAIN table : k <= m) + 1

Insert(table, row) ==
    [k \in DOMAIN table \cup {NextId(table)} |->
        IF k \in DOMAIN table THEN table[k] ELSE row]

\* User.save: add and commit; any failure rolls the session back
UserSave(table, row, commit_ok) ==
    IF commit_ok /\ ~UniqueViolation(table, row)
    THEN [ok |-> TRUE, table |-> Insert(table, row)]
    ELSE [ok |-> FALSE, table |-> table]

(***************************************************************************)
(* Requests and responses.                                                 *)
(***************************************************************************)
NoAuth == [username |-> Absent, password |-> Absent, email |-> Absent]

NoData ==
    [name |-> Absent, description |-> Absent, category |-> Absent,
     location |-> Absent, status |-> Absent, latitude |-> Absent,
     longitude |-> Absent]

NoStats == [total |-> 0, lost |-> 0, found |-> 0]

Exchange(op, identity, device_id, auth, data, code, message) ==
    [op |-> op, identity |-> identity, device_id |-> device_id, auth |-> auth,
     data |-> data, code |-> code, message |-> message,
     token |-> JNull, stats |-> NoStats, list |-> <<>>, q |-> <<>>]

UsernameInputs == {Absent, Str(<<>>), Str(ADMIN), Str(<<" ">> \o ADMIN), Str(BO)}
PasswordInputs == {Absent, Str(<<>>), Str(<<"p">>), Str(ADMIN_PW)}
EmailInputs == {Absent, Str(ADMIN_EMAIL)}

RegisterBodies ==
    [username : UsernameInputs, password : {Absent, Str(<<"p">>)},
     email : EmailInputs]

LoginBodies ==
    [username : UsernameInputs, password : PasswordInputs, email : {Absent}]

\* get_jwt_identity() under jwt_required(): the subject of a token that login
\* signed.  The server keeps no token state, so a request can carry the
\* identity of any user that was able to log in.
Identities == {users[u].username : u \in DOMAIN users}

Idle == last.op = "none"

(***************************************************************************)
(* app.py: register                                                        *)
(***************************************************************************)
register(table, data, commit_ok) ==
    IF ~Truthy(Get(data.username)) \/ ~Truthy(Get(data.password))
    THEN [table |-> table, code |-> 400,
          message |-> "Username and password are required"]
    ELSE IF find_by_username(table, data.username.s) # 0
    THEN [table |-> table, code |-> 400, message |-> "Username already exists"]
    ELSE IF PyStrip(GetDefault(data.email, Str(<<>>))).raised
            \/ PyStrip(data.username).raised
    THEN [table |-> table, code |-> 500, message |-> "Internal server error"]
    ELSE LET email == PyStrip(GetDefault(data.email, Str(<<>>))).val
             user == User(PyStrip(data.username).val,
                          IF email # <<>> THEN Email(email) ELSE NoEmail,
                          data.password.s, FALSE)
             saved == UserSave(table, user, commit_ok)
         IN  IF email # <<>> /\ find_by_email(table, email) # 0
             THEN [table |-> table, code |-> 400, message |-> "Email already exists"]
             ELSE IF saved.ok
             THEN [table |-> saved.table, code |-> 201,
                   message |-> "User created successfully"]
             ELSE [table |-> table, code |-> 500, message |-> "Failed to create user"]

Register(data, commit_ok) ==
    /\ Idle
    /\ LET r == register(users, data, commit_ok)
       IN  /\ users' = r.table
           /\ last' = Exchange("register", <<>>, 0, data, NoData, r.code, r.message)
    /\ UNCHANGED <<devices, now, deleted, inflight>>

(***************************************************************************)
(* app.py: login                                                           *)
(***************************************************************************)
\* login as it would be if it told "no such user" from "wrong password"
login_enumerating(table, data) ==
    IF ~Truthy(Get(data.username)) \/ ~Truthy(Get(data.password))
    THEN [code |-> 400, message |-> "Username and password are required",
          token |-> JNull]
    ELSE LET user == find_by_username(table, data.username.s)
         IN  IF user = 0
             THEN [code |-> 404, message |-> "User not found", token |-> JNull]
             ELSE IF check_password(table[user], data.password.s)
             THEN [code |-> 200, message |-> "",
                   token |-> Str(table[user].username)]
             ELSE [code |-> 401, message |-> "Invalid credentials", token |-> JNull]

login(table, data) ==
    IF ~Truthy(Get(data.username)) \/ ~Truthy(Get(data.password))
    THEN [code |-> 400, message |-> "Username and password are required",
          token |-> JNull]
    ELSE LET user == find_by_username(table, data.username.s)
         IN  IF user # 0 /\ check_password(table[user], data.password.s)
             THEN [code |-> 200, message |-> "",
                   token |-> Str(table[user].username)]
             ELSE [code |-> 401, message |-> "Invalid credentials", token |-> JNull]

Login(data) ==
    /\ Idle
    /\ LET r == login(users, data)
       IN  last' = [Exchange("login", <<>>, 0, data, NoData, r.code, r.message)
                       EXCEPT !.token = r.token]
    /\ UNCHANGED <<users, devices, now, deleted, inflight>>

(***************************************************************************)
(* models.py: Device                                                       *)
(***************************************************************************)
\* Device.__init__ with the column defaults applied at insert
Device(name, user_id, description, category, status, location, latitude, longitude, utcnow) ==
    [name |-> name, description |-> description, category |-> category,
     location |-> location, status |-> status, latitude |-> latitude,
     longitude |-> longitude, created_at |-> utcnow, updated_at |-> utcnow,
     user_id |-> user_id]

\* Device.find_by_id: the id of the row, 0 for None
find_by_id(table, device_id) == IF device_id \in DOMAIN table THEN device_id ELSE 0

\* the selection as it would be without the filter on user_id
RowsOfAnyUser(table, user_id) == DOMAIN table

\* the rows selected by filter(Device.user_id == user_id)
RowsOfUser(table, user_id) == {d \in DOMAIN table : table[d].user_id = user_id}

\* the rows in ascending order of creation
OrderByCreatedAsc(table, rows) ==
    CHOOSE seq \in [1..Cardinality(rows) -> rows] :
        /\ \A d \in rows : \E i \in DOMAIN seq : seq[i] = d
        /\ \A i, j \in DOMAIN seq :
               i < j => table[seq[i]].created_at <= table[seq[j]].created_at

\* ORDER BY created_at DESC over a set of rows
OrderByCreatedDesc(table, rows) ==
    CHOOSE seq \in [1..Cardinality(rows) -> rows] :
        /\ \A d \in rows : \E i \in DOMAIN seq : seq[i] = d
        /\ \A i, j \in DOMAIN seq :
               i < j => table[seq[i]].created_at >= table[seq[j]].created_at

\* Device.find_by_user_id
find_by_user_id(table, user_id) == OrderByCreatedDesc(table, RowsOfUser(table, user_id))

\* func.sum(case((Device.status == value, 1), else_=0)): NULL over no rows
SumCase(table, rows, value) ==
    IF rows = {} THEN SqlNull
    ELSE SqlFloat(Cardinality({d \in rows : table[d].status = value}))

\* int(x or 0)
IntOrZero(x) == IF x.null \/ x.val = 0 THEN 0 ELSE x.val

\* Device.get_user_stats
get_user_stats(table, user_id) ==
    [total |-> IntOrZero(SqlFloat(Cardinality(RowsOfUser(table, user_id)))),
     lost |-> IntOrZero(SumCase(table, RowsOfUser(table, user_id), LOST)),
     found |-> IntOrZero(SumCase(table, RowsOfUser(table, user_id), FOUND))]

\* a handler that flushed its pending change instead of discarding it
RollbackKeepsPending(table, device_id, pending) ==
    [k \in DOMAIN table \cup {device_id} |->
        IF k = device_id THEN pending ELSE table[k]]

\* db.session.rollback(): the pending change to row device_id is discarded
Rollback(table, device_id, pending) == table

\* db.session.commit() of an insert or an update of row device_id
Commit(table, device_id, pending) ==
    [k \in DOMAIN table \cup {device_id} |->
        IF k = device_id THEN pending ELSE table[k]]

\* a delete that leaves the row in the table
DeleteRowKept(table, device_id) == table

\* db.session.delete(device) followed by commit
DeleteRow(table, device_id) == [k \in DOMAIN table \ {device_id} |-> table[k]]

(***************************************************************************)
(* Device request bodies.                                                  *)
(***************************************************************************)
Body(name, description, category, location, status, latitude, longitude) ==
    [name |-> name, description |-> description, category |-> category,
     location |-> location, status |-> status, latitude |-> latitude,
     longitude |-> longitude]

\* the keys a device request body is read for
Fields ==
    {"name", "description", "category", "location", "status", "latitude",
     "longitude"}

NAME_A == Str(<<"a", " ">>)
BLANK == Str(<<" ">>)
EMPTY == Str(<<>>)
TEXT_X == Str(<<"x", " ">>)

\* names: missing, empty, blank, to be trimmed
NameBodies ==
    {Body(name, Absent, Absent, Absent, Absent, Absent, Absent) :
        name \in {Absent, EMPTY, BLANK, NAME_A}}

\* statuses: valid and invalid, alone, with a name, with another field
StatusBodies ==
    {Body(NAME_A, Absent, Absent, Absent, Str(FOUND), Absent, Absent),
     Body(NAME_A, Absent, Absent, Absent, Str(STOLEN), Absent, Absent),
     Body(Absent, Absent, Absent, Absent, Str(LOST), Absent, Absent),
     Body(Absent, TEXT_X, Absent, Absent, Str(STOLEN), Absent, Absent)}

\* the free-text fields
TextBodies ==
    {Body(Absent, TEXT_X, TEXT_X, TEXT_X, Absent, Absent, Absent),
     Body(NAME_A, Absent, Absent, TEXT_X, Absent, Absent, Absent)}

\* coordinates: null, empty, "0", 0, a numeral, one key only, not a number
CoordBodies ==
    {Body(NAME_A, Absent, Absent, Absent, Absent, EMPTY, Str(<<"0">>)),
     Body(NAME_A, Absent, Absent, Absent, Absent, Num(0), JNull),
     Body(Absent, Absent, Absent, Absent, Absent, Str(<<"7">>), Absent),
     Body(Absent, Absent, Absent, Absent, Absent, JNull, Str(<<"7">>)),
     Body(Absent, TEXT_X, Absent, Absent, Absent, Str(<<"x">>), Absent),
     Body(NAME_A, Absent, Absent, Absent, Str(STOLEN), Absent, Str(<<"x">>))}

\* a body that also names an owner and an id, keys no handler reads
OwnerBodies ==
    {Body(NAME_A, Absent, Absent, Absent, Absent, Absent, Absent)
        @@ [user_id |-> Num(2), id |-> Num(2)]}

DeviceBodies ==
    NameBodies \cup StatusBodies \cup TextBodies \cup CoordBodies \cup OwnerBodies

(***************************************************************************)
(* routes.py: add_device                                                   *)
(***************************************************************************)
\* float(latitude) if latitude not in [None, ''] else None
CreateCoordinate(v) ==
    IF v.t = "null" \/ (v.t = "str" /\ v.s = <<>>)
    THEN [raised |-> FALSE, val |-> SqlNull]
    ELSE [raised |-> PyFloat(v).raised, val |-> SqlFloat(PyFloat(v).val)]

\* status not in ['lost', 'found']
InvalidStatus(v) == ~(v.t = "str" /\ v.s \in {LOST, FOUND})

\* not data or not data.get('name')
NameMissing(data) == ~Truthy(Get(data.name))

add_device(utable, table, identity, data, commit_ok, utcnow) ==
    LET current_user == find_by_username(utable, identity)
        name == PyStrip(GetDefault(data.name, Str(<<>>)))
        description == PyStrip(GetDefault(data.description, Str(<<>>)))
        category == PyStrip(GetDefault(data.category, Str(<<>>)))
        location == PyStrip(GetDefault(data.location, Str(<<>>)))
        status == GetDefault(data.status, Str(LOST))
        latitude == CreateCoordinate(Get(data.latitude))
        longitude == CreateCoordinate(Get(data.longitude))
        device == Device(name.val, current_user, description.val, category.val,
                         status.s, location.val, latitude.val, longitude.val,
                         utcnow)
    IN  IF current_user = 0
        THEN [table |-> table, code |-> 404, message |-> "User not found"]
        ELSE IF NameMissing(data)
        THEN [table |-> table, code |-> 400, message |-> "Device name is required"]
        ELSE IF name.raised \/ description.raised \/ category.raised
                \/ location.raised \/ latitude.raised \/ longitude.raised
        THEN [table |-> Rollback(table, NextId(table), device), code |-> 500,
              message |-> "Failed to create device due to an internal error."]
        ELSE IF InvalidStatus(status)
        THEN [table |-> table, code |-> 400,
              message |-> "Status must be 'lost' or 'found'"]
        ELSE IF commit_ok
        THEN [table |-> Commit(table, NextId(table), device), code |-> 201,
              message |-> ""]
        ELSE [table |-> Rollback(table, NextId(table), device), code |-> 500,
              message |-> "Failed to create device due to an internal error."]

\* POST /devices; the run is capped at MaxClock row writes and at ids up to
\* MaxDevices
AddDevice(identity, data, commit_ok) ==
    /\ Idle
    /\ now < MaxClock
    /\ NextId(devices) <= MaxDevices
    /\ LET r == add_device(users, devices, identity, data, commit_ok, now + 1)
       IN  /\ devices' = r.table
           /\ now' = IF r.code = 201 THEN now + 1 ELSE now
           /\ last' = Exchange("create", identity,
                               IF r.code = 201 THEN NextId(devices) ELSE 0,
                               NoAuth, data, r.code, r.message)
    /\ UNCHANGED <<users, deleted, inflight>>

(***************************************************************************)
(* routes.py: update_device                                                *)
(***************************************************************************)
\* the coordinate as the truth-value test reads it:
\* float(data[key]) if data[key] else None
UpdateCoordinateTruthy(v) ==
    IF ~Truthy(v)
    THEN [raised |-> FALSE, val |-> SqlNull]
    ELSE [raised |-> PyFloat(v).raised, val |-> SqlFloat(PyFloat(v).val)]

\* float(data[key]) if data[key] not in [None, ''] else None
UpdateCoordinate(v) ==
    IF v.t = "null" \/ (v.t = "str" /\ v.s = <<>>)
    THEN [raised |-> FALSE, val |-> SqlNull]
    ELSE [raised |-> PyFloat(v).raised, val |-> SqlFloat(PyFloat(v).val)]

\* a handler without the ownership check
NotOwnerUnchecked(row, current_user) == FALSE

\* device.user_id != current_user.id
NotOwner(row, current_user) == row.user_id # current_user

\* if key in data: device.<field> = data[key].strip(); st is the handler's
\* progress: the row held by the session and whether a statement raised
AssignText(st, field, v) ==
    IF st.raised \/ ~HasKey(v) THEN st
    ELSE IF PyStrip(v).raised THEN [st EXCEPT !.raised = TRUE]
    ELSE [st EXCEPT !.row[field] = PyStrip(v).val]

\* the status assigned whenever the key is present
AssignStatusUnchecked(st, v) ==
    IF st.raised \/ ~HasKey(v) \/ v.t # "str" THEN st
    ELSE [st EXCEPT !.row.status = v.s]

\* if 'status' in data and data['status'] in ['lost', 'found']
AssignStatus(st, v) ==
    IF st.raised \/ ~HasKey(v) \/ InvalidStatus(v) THEN st
    ELSE [st EXCEPT !.row.status = v.s]

\* if key in data: device.<field> = float(...) if ... else None
AssignCoordinate(st, field, v) ==
    IF st.raised \/ ~HasKey(v) THEN st
    ELSE IF UpdateCoordinate(v).raised THEN [st EXCEPT !.raised = TRUE]
    ELSE [st EXCEPT !.row[field] = UpdateCoordinate(v).val]

\* device.updated_at = datetime.utcnow()
AssignUpdatedAt(st, utcnow) ==
    IF st.raised THEN st ELSE [st EXCEPT !.row.updated_at = utcnow]

\* the assignments of update_device followed by one of device.user_id from
\* the body
ApplyUpdateWithOwner(row, data, utcnow) ==
    LET st == AssignUpdatedAt(
                AssignCoordinate(
                  AssignCoordinate(
                    AssignStatus(
                      AssignText(
                        AssignText(
                          AssignText(
                            AssignText([row |-> row, raised |-> FALSE],
                                       "name", data.name),
                            "description", data.description),
                          "category", data.category),
                        "location", data.location),
                      data.status),
                    "latitude", data.latitude),
                  "longitude", data.longitude),
                utcnow)
    IN  IF ~st.raised /\ "user_id" \in DOMAIN data
        THEN [st EXCEPT !.row.user_id = data.user_id.n]
        ELSE st

\* the assignments of update_device, in the order of the source
ApplyUpdate(row, data, utcnow) ==
    AssignUpdatedAt(
      AssignCoordinate(
        AssignCoordinate(
          AssignStatus(
            AssignText(
              AssignText(
                AssignText(
                  AssignText([row |-> row, raised |-> FALSE], "name", data.name),
                  "description", data.description),
                "category", data.category),
              "location", data.location),
            data.status),
          "latitude", data.latitude),
        "longitude", data.longitude),
      utcnow)

update_device(utable, table, identity, device_id, data, commit_ok, utcnow) ==
    LET current_user == find_by_username(utable, identity)
        device == find_by_id(table, device_id)
    IN  IF current_user = 0
        THEN [table |-> table, code |-> 404, message |-> "User not found"]
        ELSE IF device = 0
        THEN [table |-> table, code |-> 404, message |-> "Device not found"]
        ELSE IF NotOwner(table[device], current_user)
        THEN [table |-> table, code |-> 403, message |-> "Unauthorized"]
        ELSE LET st == ApplyUpdate(table[device], data, utcnow)
             IN  IF ~st.raised /\ commit_ok
                 THEN [table |-> Commit(table, device, st.row), code |-> 200,
                       message |-> ""]
                 ELSE [table |-> Rollback(table, device, st.row), code |-> 500,
                       message |-> "Failed to update device"]

\* PUT /devices/<device_id>; the run is capped at MaxClock row writes
UpdateDevice(identity, device_id, data, commit_ok) ==
    /\ Idle
    /\ now < MaxClock
    /\ LET r == update_device(users, devices, identity, device_id, data,
                              commit_ok, now + 1)
       IN  /\ devices' = r.table
           /\ now' = IF r.code = 200 THEN now + 1 ELSE now
           /\ last' = Exchange("update", identity, device_id, NoAuth, data,
                               r.code, r.message)
    /\ UNCHANGED <<users, deleted, inflight>>

(***************************************************************************)
(* routes.py: delete_device                                                *)
(***************************************************************************)
delete_device(utable, table, identity, device_id, commit_ok) ==
    LET current_user == find_by_username(utable, identity)
        device == find_by_id(table, device_id)
    IN  IF current_user = 0
        THEN [table |-> table, code |-> 404, message |-> "User not found"]
        ELSE IF device = 0
        THEN [table |-> table, code |-> 404, message |-> "Device not found"]
        ELSE IF NotOwner(table[device], current_user)
        THEN [table |-> table, code |-> 403, message |-> "Unauthorized"]
        ELSE IF commit_ok
        THEN [table |-> DeleteRow(table, device), code |-> 200,
              message |-> "Device deleted successfully"]
        ELSE [table |-> Rollback(table, device, table[device]), code |-> 500,
              message |-> "Failed to delete device"]

DeleteDevice(identity, device_id, commit_ok) ==
    /\ Idle
    /\ LET r == delete_device(users, devices, identity, device_id, commit_ok)
       IN  /\ devices' = r.table
           /\ deleted' = IF r.code = 200 THEN deleted \cup {device_id} ELSE deleted
           /\ last' = Exchange("delete", identity, device_id, NoAuth, NoData,
                               r.code, r.message)
    /\ UNCHANGED <<users, now, inflight>>

(***************************************************************************)
(* routes.py: get_devices, get_device_stats                                *)
(***************************************************************************)
get_devices(utable, table, identity) ==
    LET current_user == find_by_username(utable, identity)
    IN  IF current_user = 0
        THEN [code |-> 404, message |-> "User not found", list |-> <<>>]
        ELSE [code |-> 200, message |-> "",
              list |-> find_by_user_id(table, current_user)]

GetDevices(identity) ==
    /\ Idle
    /\ LET r == get_devices(users, devices, identity)
       IN  last' = [Exchange("list", identity, 0, NoAuth, NoData, r.code, r.message)
                       EXCEPT !.list = r.list]
    /\ UNCHANGED <<users, devices, now, deleted, inflight>>

get_device_stats(utable, table, identity) ==
    LET current_user == find_by_username(utable, identity)
    IN  IF current_user = 0
        THEN [code |-> 404, message |-> "User not found", stats |-> NoStats]
        ELSE [code |-> 200, message |-> "",
              stats |-> get_user_stats(table, current_user)]

GetDeviceStats(identity) ==
    /\ Idle
    /\ LET r == get_device_stats(users, devices, identity)
       IN  last' = [Exchange("stats", identity, 0, NoAuth, NoData, r.code, r.message)
                       EXCEPT !.stats = r.stats]
    /\ UNCHANGED <<users, devices, now, deleted, inflight>>

(***************************************************************************)
(* models.py: Device.search_devices; app.py: not_found.                    *)
(* The search route of routes.py is inside the string literal that opens   *)
(* the file: the blueprint of the running server registers no rule for     *)
(* /devices/search, and nothing calls Device.search_devices.               *)
(***************************************************************************)
\* column LIKE '%query%': the query occurs in the column's text
Like(chars, query) ==
    \E i \in 0..(Len(chars) - Len(query)) :
        SubSeq(chars, i + 1, i + Len(query)) = query

\* Device.search_devices(query, user_id); the owner filter is applied when
\* user_id is truthy
search_devices(table, query, user_id) ==
    LET matching == {d \in DOMAIN table :
                        \/ Like(table[d].name, query)
                        \/ Like(table[d].description, query)
                        \/ Like(table[d].location, query)
                        \/ Like(table[d].category, query)}
        rows == IF user_id # 0
                THEN matching \cap RowsOfUser(table, user_id)
                ELSE matching
    IN  OrderByCreatedDesc(table, rows)

\* the query strings of GET /devices/search?q=
SearchQueries == {<<>>, <<"a">>}

\* no URL rule matches: the 404 error handler answers
not_found(error) == [code |-> 404, message |-> "Endpoint not found", list |-> <<>>]

\* GET /api/devices/search?q=... sent to the running server
SearchDevices(identity, q) ==
    /\ Idle
    /\ LET r == not_found("NotFound")
       IN  last' = [Exchange("search", identity, 0, NoAuth, NoData, r.code, r.message)
                       EXCEPT !.list = r.list, !.q = q]
    /\ UNCHANGED <<users, devices, now, deleted, inflight>>

(***************************************************************************)
(* Requests served concurrently: app.run serves each request on a thread   *)
(* of its own, every thread with its own database session.                 *)
(***************************************************************************)
\* the number of requests inside a handler at the same time
MaxRequests == 2

Requests == 1..MaxRequests

\* no row loaded into the session
NoRow == Device(<<>>, 0, <<>>, <<>>, <<>>, <<>>, SqlNull, SqlNull, 0)

\* a thread: its position in the handler, the request, the rows its session
\* holds (as loaded, and with the handler's assignments), and the response
Thread(pc, identity, device_id, auth, data, loaded, pending, code, message) ==
    [pc |-> pc, identity |-> identity, device_id |-> device_id, auth |-> auth,
     data |-> data, loaded |-> loaded, pending |-> pending,
     code |-> code, message |-> message]

\* a thread that serves no request
Free == Thread("free", <<>>, 0, NoAuth, NoData, NoRow, NoRow, 0, "")

\* the thread sends the response and leaves the handler
Answer(r, code, message) ==
    inflight' = [inflight EXCEPT ![r].pc = "done", ![r].code = code,
                                 ![r].message = message]

\* the response has been sent
Finish(r) ==
    /\ inflight[r].pc = "done"
    /\ inflight' = [inflight EXCEPT ![r] = Free]
    /\ UNCHANGED <<users, devices, now, deleted, last>>

(***************************************************************************)
(* The server.                                                             *)
(***************************************************************************)
\* the response is sent and the server waits for the next request
Respond ==
    /\ ~Idle
    /\ last' = Exchange("none", <<>>, 0, NoAuth, NoData, 0, "")
    /\ UNCHANGED <<users, devices, now, deleted, inflight>>

\* the database init_db.init_database leaves behind, before any request
Init ==
    /\ users = (1 :> User(ADMIN, Email(ADMIN_EMAIL), ADMIN_PW, TRUE))
    /\ devices = << >>
    /\ now = 0
    /\ deleted = {}
    /\ last = Exchange("none", <<>>, 0, NoAuth, NoData, 0, "")
    /\ inflight = [r \in Requests |-> Free]

Next ==
    \/ \E data \in RegisterBodies, commit_ok \in BOOLEAN : Register(data, commit_ok)
    \/ \E data \in LoginBodies : Login(data)
    \/ \E identity \in Identities, data \in DeviceBodies, commit_ok \in BOOLEAN :
           AddDevice(identity, data, commit_ok)
    \/ \E identity \in Identities, device_id \in 1..MaxDevices,
          data \in DeviceBodies, commit_ok \in BOOLEAN :
           UpdateDevice(identity, device_id, data, commit_ok)
    \/ \E identity \in Identities, device_id \in 1..MaxDevices,
          commit_ok \in BOOLEAN :
           DeleteDevice(identity, device_id, commit_ok)
    \/ \E identity \in Identities : GetDevices(identity)
    \/ \E identity \in Identities : GetDeviceStats(identity)
    \/ \E identity \in Identities, q \in SearchQueries : SearchDevices(identity, q)
    \/ Respond

Spec == Init /\ [][Next]_vars

(***************************************************************************)
(* models.py: User.delete, and the server with accounts being removed.     *)
(***************************************************************************)
\* the run is capped at MaxUsers user rows ever inserted
MaxUsers == 3

\* a delete of the user row alone, the user's devices left in the table
DevicesLeftBehind(table, user_id) == table

\* User.devices, cascade='all, delete-orphan': the session deletes the
\* devices of the user together with the user
CascadeDelete(table, user_id) ==
    [k \in {d \in DOMAIN table : table[d].user_id # user_id} |-> table[k]]

user_delete(utable, table, user_id, commit_ok) ==
    IF commit_ok
    THEN [ok |-> TRUE,
          users |-> [k \in DOMAIN utable \ {user_id} |-> utable[k]],
          devices |-> CascadeDelete(table, user_id)]
    ELSE [ok |-> FALSE, users |-> utable, devices |-> table]

\* user.delete() on a stored user; the exchange records the username, the
\* user's devices as the relationship loads them, and the value returned
DeleteUser(user_id, commit_ok) ==
    /\ Idle
    /\ user_id \in DOMAIN users
    /\ LET r == user_delete(users, devices, user_id, commit_ok)
       IN  /\ users' = r.users
           /\ devices' = r.devices
           /\ deleted' = deleted \cup (DOMAIN devices \ DOMAIN r.devices)
           /\ last' = [Exchange("User.delete", users[user_id].username, 0,
                                NoAuth, NoData, 0,
                                IF r.ok THEN "True" ELSE "False")
                          EXCEPT !.list = find_by_user_id(devices, user_id)]
    /\ UNCHANGED <<now, inflight>>

\* tokens stay valid after the account they name is removed
Tokens == {ADMIN, BO}

\* registrations without an email address
AccountBodies == {data \in RegisterBodies : data.email = Absent}

NextAccounts ==
    \/ \E data \in AccountBodies, commit_ok \in BOOLEAN :
           NextId(users) <= MaxUsers /\ Register(data, commit_ok)
    \/ \E user_id \in 1..MaxUsers, commit_ok \in BOOLEAN :
           DeleteUser(user_id, commit_ok)
    \/ \E identity \in Tokens, data \in NameBodies, commit_ok \in BOOLEAN :
           AddDevice(identity, data, commit_ok)
    \/ \E identity \in Tokens, device_id \in 1..MaxDevices,
          data \in NameBodies, commit_ok \in BOOLEAN :
           UpdateDevice(identity, device_id, data, commit_ok)
    \/ \E identity \in Tokens, device_id \in 1..MaxDevices,
          commit_ok \in BOOLEAN :
           DeleteDevice(identity, device_id, commit_ok)
    \/ \E identity \in Tokens : GetDevices(identity)
    \/ Respond

SpecAccounts == Init /\ [][NextAccounts]_vars

(***************************************************************************)
(* app.py: register, statement by statement, on concurrent threads.        *)
(***************************************************************************)
CY == <<"c", "y">>
BO_EMAIL == <<"b", "@", "x">>

\* registrations of two new usernames, with and without a new email
RacingRegisterBodies ==
    {[username |-> Str(username), password |-> Str(<<"p">>), email |-> email] :
        username \in {BO, CY}, email \in {Absent, Str(BO_EMAIL)}}

\* data = request.get_json()
RegisterBegin(r, data) ==
    /\ inflight[r].pc = "free"
    /\ inflight' = [inflight EXCEPT ![r] = [Free EXCEPT !.pc = "username",
                                                        !.auth = data]]
    /\ UNCHANGED <<users, devices, now, deleted, last>>

\* the validation of the body and the lookup User.find_by_username
RegisterCheckUsername(r) ==
    /\ inflight[r].pc = "username"
    /\ LET data == inflight[r].auth
       IN  IF ~Truthy(Get(data.username)) \/ ~Truthy(Get(data.password))
           THEN Answer(r, 400, "Username and password are required")
           ELSE IF find_by_username(users, data.username.s) # 0
           THEN Answer(r, 400, "Username already exists")
           ELSE inflight' = [inflight EXCEPT ![r].pc = "email"]
    /\ UNCHANGED <<users, devices, now, deleted, last>>

\* email = data.get('email', '').strip() and the lookup User.find_by_email
RegisterCheckEmail(r) ==
    /\ inflight[r].pc = "email"
    /\ LET data == inflight[r].auth
           email == PyStrip(GetDefault(data.email, Str(<<>>)))
       IN  IF email.raised \/ PyStrip(data.username).raised
           THEN Answer(r, 500, "Internal server error")
           ELSE IF email.val # <<>> /\ find_by_email(users, email.val) # 0
           THEN Answer(r, 400, "Email already exists")
           ELSE inflight' = [inflight EXCEPT ![r].pc = "save"]
    /\ UNCHANGED <<users, devices, now, deleted, last>>

\* user = User(...); user.save(): the INSERT and the COMMIT are one
\* transaction of the database, which fails on a constraint only
RegisterSave(r) ==
    /\ inflight[r].pc = "save"
    /\ LET data == inflight[r].auth
           email == PyStrip(GetDefault(data.email, Str(<<>>))).val
           user == User(PyStrip(data.username).val,
                        IF email # <<>> THEN Email(email) ELSE NoEmail,
                        data.password.s, FALSE)
           saved == UserSave(users, user, TRUE)
       IN  /\ users' = saved.table
           /\ IF saved.ok
              THEN Answer(r, 201, "User created successfully")
              ELSE Answer(r, 500, "Failed to create user")
    /\ UNCHANGED <<devices, now, deleted, last>>

NextRegisterRace ==
    \/ \E r \in Requests, data \in RacingRegisterBodies : RegisterBegin(r, data)
    \/ \E r \in Requests : RegisterCheckUsername(r)
    \/ \E r \in Requests : RegisterCheckEmail(r)
    \/ \E r \in Requests : RegisterSave(r)
    \/ \E r \in Requests : Finish(r)

SpecRegisterRace == Init /\ [][NextRegisterRace]_vars

(***************************************************************************)
(* routes.py: update_device, statement by statement, on concurrent         *)
(* threads.                                                                *)
(***************************************************************************)
\* the run is capped at MaxWrites row writes
MaxWrites == 3

RacingCreateBodies == {Body(NAME_A, Absent, Absent, Absent, Absent, Absent, Absent)}

\* updates of the status alone, of the status with a text, of a name with a
\* status outside the list, and of a coordinate that is not a number
RacingUpdateBodies ==
    {Body(Absent, Absent, Absent, Absent, Str(FOUND), Absent, Absent),
     Body(Absent, TEXT_X, Absent, Absent, Str(LOST), Absent, Absent),
     Body(NAME_A, Absent, Absent, Absent, Str(STOLEN), Absent, Absent),
     Body(Absent, TEXT_X, Absent, Absent, Absent, Str(<<"x">>), Absent)}

\* the request reaches the handler
UpdateBegin(r, identity, device_id, data) ==
    /\ inflight[r].pc = "free"
    /\ inflight' = [inflight EXCEPT ![r] = [Free EXCEPT !.pc = "load",
                                                        !.identity = identity,
                                                        !.device_id = device_id,
                                                        !.data = data]]
    /\ UNCHANGED <<users, devices, now, deleted, last>>

\* User.find_by_username, Device.find_by_id, the owner test: the session of
\* the thread now holds the row as it is stored
UpdateLoad(r) ==
    /\ inflight[r].pc = "load"
    /\ LET current_user == find_by_username(users, inflight[r].identity)
           device == find_by_id(devices, inflight[r].device_id)
       IN  IF current_user = 0
           THEN Answer(r, 404, "User not found")
           ELSE IF device = 0
           THEN Answer(r, 404, "Device not found")
           ELSE IF NotOwner(devices[device], current_user)
           THEN Answer(r, 403, "Unauthorized")
           ELSE inflight' = [inflight EXCEPT ![r].pc = "assign",
                                             ![r].loaded = devices[device],
                                             ![r].pending = devices[device]]
    /\ UNCHANGED <<users, devices, now, deleted, last>>

\* the assignments to the loaded object, up to device.updated_at; an
\* exception rolls the session back
UpdateAssign(r) ==
    /\ inflight[r].pc = "assign"
    /\ LET st == ApplyUpdate(inflight[r].loaded, inflight[r].data, now + 1)
       IN  IF st.raised
           THEN Answer(r, 500, "Failed to update device")
           ELSE inflight' = [inflight EXCEPT ![r].pc = "commit",
                                             ![r].pending = st.row]
    /\ UNCHANGED <<users, devices, now, deleted, last>>

\* the UPDATE the session emits at commit: it sets the columns whose
\* assigned value differs from the value loaded, on the row as it is stored
Flush(table, device_id, loaded, pending) ==
    [table EXCEPT ![device_id] =
        [f \in DOMAIN loaded |->
            IF pending[f] # loaded[f] THEN pending[f] ELSE @[f]]]

\* db.session.commit()
UpdateCommit(r) ==
    /\ inflight[r].pc = "commit"
    /\ now < MaxWrites
    /\ devices' = Flush(devices, inflight[r].device_id,
                        inflight[r].loaded, inflight[r].pending)
    /\ now' = now + 1
    /\ Answer(r, 200, "")
    /\ UNCHANGED <<users, deleted, last>>

NextUpdateRace ==
    \/ \E identity \in Identities, data \in RacingCreateBodies :
           AddDevice(identity, data, TRUE)
    \/ Respond
    \/ \E r \in Requests, identity \in Identities, device_id \in 1..MaxDevices,
          data \in RacingUpdateBodies :
           UpdateBegin(r, identity, device_id, data)
    \/ \E r \in Requests : UpdateLoad(r)
    \/ \E r \in Requests : UpdateAssign(r)
    \/ \E r \in Requests : UpdateCommit(r)
    \/ \E r \in Requests : Finish(r)

SpecUpdateRace == Init /\ [][NextUpdateRace]_vars

(***************************************************************************)
(* Properties.                                                             *)
(***************************************************************************)
\* the id of the user a request's identity names
UserIdOf(identity) == CHOOSE u \in DOMAIN users : users[u].username = identity

\* a step in which a handler answers a request
Handles(ops) == Idle /\ last'.op \in ops

\* C1: an Update or Delete of an existing device by an authenticated user
\* who is not its owner is answered 403 and leaves both tables as they were.
C1_NonOwnerForbidden ==
    [][(/\ Handles({"update", "delete"})
        /\ last'.device_id \in DOMAIN devices
        /\ devices[last'.device_id].user_id # UserIdOf(last'.identity))
          => (/\ last'.code = 403
              /\ devices' = devices
              /\ users' = users)]_vars

\* C1 witness: a non-owner's Update carrying fields was refused
C1_Witness ==
    /\ last.op = "update"
    /\ last.code = 403
    /\ HasKey(last.data.name)
    /\ last.device_id \in DOMAIN devices

\* C2 (as claimed): every stored status is lost or found, and a Create whose
\* status is present and not lost or found is answered 400 and stores nothing.
C2_StatusValidated ==
    [][(/\ \A d \in DOMAIN devices' : devices'[d].status \in {LOST, FOUND}
        /\ (Handles({"create"})
            /\ HasKey(last'.data.status)
            /\ last'.data.status.s \notin {LOST, FOUND})
              => (last'.code = 400 /\ devices' = devices))]_vars

\* C3 (as claimed): a Register whose username would be stored as a username
\* that is already taken is answered 400 "Username already exists" and adds
\* no row, whatever email and password it carries.
C3_DuplicateUsernameConflict ==
    [][(/\ Handles({"register"})
        /\ Truthy(last'.auth.username)
        /\ Truthy(last'.auth.password)
        /\ \E u \in DOMAIN users :
               users[u].username = StripChars(last'.auth.username.s))
          => (/\ last'.code = 400
              /\ last'.message = "Username already exists"
              /\ users' = users)]_vars

C5_FailureLeavesStore ==
    [][(Handles({"create", "update", "delete"}) /\ last'.code \notin {200, 201})
          => (devices' = devices /\ users' = users)]_vars

\* C5 witness: an Update by the owner assigned description and then failed
\* on a latitude that is not a number
C5_Witness ==
    /\ last.op = "update"
    /\ last.code = 500
    /\ HasKey(last.data.description)
    /\ PyFloat(last.data.latitude).raised
    /\ last.device_id \in DOMAIN devices

\* C6 (as claimed): once a Delete of id d has succeeded, no device is stored
\* under d in any later state and no List names d.
C6_DeletedNeverAgain ==
    \A d \in deleted :
        /\ d \notin DOMAIN devices
        /\ \A i \in DOMAIN last.list : last.list[i] # d

\* C6 (amended): a successful Delete removes the row, and an id that was
\* deleted and is not stored stays so until a successful Create is given
\* that id; until then Update and Delete on it are answered 404, List does
\* not name it and Stats counts stored rows only.
C6_AbsentUntilRecreated ==
    [][/\ (Handles({"delete"}) /\ last'.code = 200)
            => (/\ last'.device_id \in DOMAIN devices
                /\ last'.device_id \notin DOMAIN devices'
                /\ last'.device_id \in deleted')
       /\ \A d \in deleted \ DOMAIN devices :
            /\ d \in DOMAIN devices'
                 => (Idle /\ last'.op = "create" /\ last'.code = 201
                     /\ last'.device_id = d)
            /\ (Handles({"update", "delete"}) /\ last'.device_id = d)
                 => (last'.code = 404 /\ last'.message = "Device not found")
            /\ Handles({"list"})
                 => \A i \in DOMAIN last'.list : last'.list[i] # d
            /\ (Handles({"stats"}) /\ last'.code = 200)
                 => last'.stats.total
                      = Cardinality({e \in DOMAIN devices :
                            devices[e].user_id = UserIdOf(last'.identity)})]_vars

\* C6 witness: a request on a deleted id that is not stored again got 404
C6_Witness ==
    /\ last.op \in {"update", "delete"}
    /\ last.code = 404
    /\ last.device_id \in deleted
    /\ last.device_id \notin DOMAIN devices

\* C7: a successful Update leaves every attribute whose key is absent as it
\* was, applies the trimmed text of every text key present, leaves status as
\* it was when the status sent is not lost or found, and sets updated_at to
\* the time of the request.
C7_PartialUpdate ==
    [][(Handles({"update"}) /\ last'.code = 200)
          => LET old == devices[last'.device_id]
                 new == devices'[last'.device_id]
                 data == last'.data
             IN  /\ \A f \in Fields : ~HasKey(data[f]) => new[f] = old[f]
                 /\ \A f \in {"name", "description", "category", "location"} :
                        HasKey(data[f]) => new[f] = StripChars(data[f].s)
                 /\ (HasKey(data.status) /\ data.status.s \in {LOST, FOUND})
                        => new.status = data.status.s
                 /\ (HasKey(data.status) /\ data.status.s \notin {LOST, FOUND})
                        => new.status = old.status
                 /\ new.updated_at = now'
                 /\ new.updated_at > old.updated_at]_vars

\* C7 witness: an accepted Update carried an invalid status and a description
C7_Witness ==
    /\ last.op = "update"
    /\ last.code = 200
    /\ last.data.status = Str(STOLEN)
    /\ HasKey(last.data.description)
    /\ devices[last.device_id].description = <<"x">>
    /\ devices[last.device_id].status \in {LOST, FOUND}

\* C8 (as claimed): every stored device has a trimmed, non-empty name.
C8_NameNonEmpty ==
    \A d \in DOMAIN devices :
        /\ devices[d].name # <<>>
        /\ devices[d].name = StripChars(devices[d].name)

\* C9: Stats is answered 200 with total, lost and found equal to the numbers
\* of stored devices of the caller, of those with status lost and of those
\* with status found; all three are 0 for a caller without devices.
C9_StatsCounts ==
    last.op = "stats"
      => LET owned == {d \in DOMAIN devices :
                          devices[d].user_id = UserIdOf(last.identity)}
         IN  /\ last.code = 200
             /\ last.stats.total = Cardinality(owned)
             /\ last.stats.lost
                  = Cardinality({d \in owned : devices[d].status = LOST})
             /\ last.stats.found
                  = Cardinality({d \in owned : devices[d].status = FOUND})
             /\ owned = {} => last.stats = [total |-> 0, lost |-> 0, found |-> 0]

\* C9 witness: Stats of a user without devices while another user has one
C9_Witness ==
    /\ last.op = "stats"
    /\ last.code = 200
    /\ last.stats.total = 0
    /\ DOMAIN devices # {}

\* C10: after a successful Create or Update, a coordinate sent as null or ""
\* (or left out of a Create) is stored as NULL and every other coordinate
\* sent is stored as the number it parses to, "0" and 0 as 0.0; latitude and
\* longitude each follow their own input.
C10_CoordinateParsing ==
    (last.op \in {"create", "update"} /\ last.code \in {200, 201})
      => \A f \in {"latitude", "longitude"} :
            LET v == last.data[f]
                stored == devices[last.device_id][f]
            IN  /\ (v = JNull \/ v = Str(<<>>)) => stored = SqlNull
                /\ (v = Absent /\ last.op = "create") => stored = SqlNull
                /\ (v \in {Str(<<"0">>), Num(0)}) => stored = SqlFloat(0)
                /\ (HasKey(v) /\ v # JNull /\ v # Str(<<>>))
                      => (~stored.null /\ stored.val = PyFloat(v).val)

\* C10 witness: a Create with latitude "" and longitude "0" stored NULL, 0.0
C10_Witness ==
    /\ last.op = "create"
    /\ last.code = 201
    /\ last.data.latitude = Str(<<>>)
    /\ last.data.longitude = Str(<<"0">>)
    /\ devices[last.device_id].latitude = SqlNull
    /\ devices[last.device_id].longitude = SqlFloat(0)

\* C11: List is answered 200 with exactly the stored devices of the caller,
\* each once, none of another user, newest creation time first.
C11_ListOwnedNewestFirst ==
    last.op = "list"
      => LET owned == {d \in DOMAIN devices :
                          devices[d].user_id = UserIdOf(last.identity)}
         IN  /\ last.code = 200
             /\ {last.list[i] : i \in DOMAIN last.list} = owned
             /\ Len(last.list) = Cardinality(owned)
             /\ \A i, j \in DOMAIN last.list :
                    i < j => devices[last.list[i]].created_at
                               >= devices[last.list[j]].created_at

\* C11 witness: a List of two devices of the caller, the newer one first
C11_Witness ==
    /\ last.op = "list"
    /\ Len(last.list) = 2
    /\ devices[last.list[1]].created_at > devices[last.list[2]].created_at

\* C12: every stored device is owned by a stored user: a Create stores its
\* device under the user the token resolves to, and a successful delete of a
\* user removes that user's devices in the same step and no other device.
C12_OwnerExists ==
    [][/\ \A d \in DOMAIN devices' : devices'[d].user_id \in DOMAIN users'
       /\ (Handles({"create"}) /\ last'.code = 201)
            => /\ find_by_username(users, last'.identity) # 0
               /\ last'.device_id \in DOMAIN devices'
               /\ devices'[last'.device_id].user_id
                      = find_by_username(users, last'.identity)
       /\ (Handles({"User.delete"}) /\ last'.message = "True")
            => LET u == UserIdOf(last'.identity)
               IN  /\ u \notin DOMAIN users'
                   /\ DOMAIN devices' \subseteq DOMAIN devices
                   /\ \A d \in DOMAIN devices :
                          IF devices[d].user_id = u
                          THEN d \notin DOMAIN devices'
                          ELSE /\ d \in DOMAIN devices'
                               /\ devices'[d] = devices[d]
      ]_vars

\* C12 witness: a user with a device was deleted, the device went with the
\* user, and a device of another user is still stored
C12_Witness ==
    /\ last.op = "User.delete"
    /\ last.message = "True"
    /\ Len(last.list) >= 1
    /\ \A i \in DOMAIN last.list : last.list[i] \notin DOMAIN devices
    /\ DOMAIN devices # {}

\* C13: Search is answered with success status; an empty query gives the
\* empty result, a non-empty query gives only devices of the caller whose
\* name, description, location or category contains the query.
C13_SearchContract ==
    last.op = "search"
      => /\ last.code = 200
         /\ last.q = <<>> => last.list = <<>>
         /\ \A i \in DOMAIN last.list :
                LET row == devices[last.list[i]]
                IN  /\ row.user_id = UserIdOf(last.identity)
                    /\ \/ Like(row.name, last.q)
                       \/ Like(row.description, last.q)
                       \/ Like(row.location, last.q)
                       \/ Like(row.category, last.q)

\* C15: under every interleaving of the steps of concurrent registrations no
\* two stored users have the same username or the same non-null email; a
\* registration that reaches its insert after another one has committed the
\* same username adds no row and is answered with an error.
C15_UniqueUnderRaces ==
    [][/\ \A u, v \in DOMAIN users' :
              u # v => /\ users'[u].username # users'[v].username
                       /\ ~users'[u].email.null
                              => users'[u].email # users'[v].email
       /\ \A r \in Requests :
              (/\ inflight[r].pc = "save"
               /\ inflight'[r].pc = "done"
               /\ find_by_username(users, PyStrip(inflight[r].auth.username).val) # 0)
                => /\ users' = users
                   /\ inflight'[r].code = 500
                   /\ inflight'[r].message = "Failed to create user"
      ]_vars

\* C15 witness: two registrations of one username were in flight together;
\* one was answered 201, the other lost the insert and was answered 500
C15_Witness ==
    \E r, s \in Requests :
        /\ inflight[r].pc = "done" /\ inflight[r].code = 201
        /\ inflight[s].pc = "done" /\ inflight[s].code = 500
        /\ inflight[s].message = "Failed to create user"
        /\ inflight[r].auth.username = inflight[s].auth.username
        /\ Cardinality({u \in DOMAIN users :
                           users[u].username = inflight[r].auth.username.s}) = 1

\* a field of the device the handler assigns from the body
Written(data, f) ==
    HasKey(data[f]) /\ (f = "status" => ~InvalidStatus(data.status))

\* C14: an Update that commits while another Update of the same device is
\* or was in flight is answered 200; every field both requests write then
\* holds the value of the one that commits last; the status stays lost or
\* found; every stored value is the one stored before or the one assigned.
C14_LastCommitWins ==
    [][\A r \in Requests :
          (inflight[r].pc = "commit" /\ inflight'[r].pc = "done")
            => LET d == inflight[r].device_id
               IN  /\ inflight'[r].code = 200
                   /\ devices'[d].status \in {LOST, FOUND}
                   /\ \A f \in DOMAIN devices'[d] :
                          devices'[d][f] \in {devices[d][f], inflight[r].pending[f]}
                   /\ \A s \in Requests \ {r}, f \in Fields :
                          (/\ inflight[s].pc = "done"
                           /\ inflight[s].code = 200
                           /\ inflight[s].device_id = d
                           /\ Written(inflight[s].data, f)
                           /\ Written(inflight[r].data, f))
                            => devices'[d][f] = inflight[r].pending[f]
      ]_vars

====
